---- MODULE Spec2Model ----
(***************************************************************************)
(* A model of txaws/storage/client.py: the S3Client facade and the Query   *)
(* request builder and signer.                                             *)
(*                                                                         *)
(* Python values are modelled as follows.                                  *)
(*   str        a TLA+ string                                              *)
(*   None       the string None (no input set holds it as a real string)   *)
(*   dict       a sequence of <<key, value>> pairs with distinct keys, in  *)
(*              the dict's iteration order                                 *)
(*   object     a handle (a string) into a heap: endpoints, credentials,   *)
(*              mappings                                                   *)
(***************************************************************************)
EXTENDS Integers, Sequences, FiniteSets, TLC

VARIABLES
    now,          \* the wall clock read by datetimeToString()
    endpoints,    \* heap of AWSServiceEndpoint objects: handle -> [scheme, host, method]
    credentials,  \* heap of credentials objects: handle -> [access_key, secret_key]
    mappings,     \* heap of metadata dicts: handle -> dict
    ctor_args,    \* query id -> the arguments its constructor was given, or NoArgs
    queries,      \* query id -> Query object, or NoQuery before construction
    address,      \* query id -> the last [host, path, uri] its get_ methods returned, or NoAddress
    headers_out,  \* query id -> the dict the last get_headers() returned, or NoHeaders
    signed_text,  \* query id -> the text the last sign() passed to creds.sign, or None
    canon_out,    \* query id -> what get_canonicalized_amz_headers returned to that sign(), or None
    last_req,     \* query id -> the last request get_page() handed to the transport, or NoRequest
    first_req,    \* query id -> the first request handed to the transport, or NoRequest
    client,       \* the S3Client object: its attributes
    call,         \* the last facade call: [op, args]
    outcome,      \* what that call did: [raised, constructed, query, requests]
    response,     \* the HTTP response of the listing request in flight
    deferred,     \* the Deferred list_buckets returned: [state, value]
    gen,          \* the generator _parse_list_buckets returned: [state, pos]
    consumed,     \* the records the consumer got from the generator, in order
    passes        \* how many complete passes the consumer made over the generator

vars == <<now, endpoints, credentials, mappings, ctor_args, queries, address,
          headers_out, signed_text,
          canon_out, last_req, first_req,
          client, call, outcome, response, deferred, gen, consumed, passes>>

query_vars == <<now, endpoints, credentials, mappings, ctor_args, queries, address,
                headers_out, signed_text,
                canon_out, last_req, first_req>>
facade_vars == <<client, call, outcome>>
list_vars == <<response, deferred, gen, consumed, passes>>

-----------------------------------------------------------------------------
(* Bounds of the model.                                                    *)

MaxClock == 1
NumQueries == 2
MaxMeta == 2
MaxBuckets == 2

-----------------------------------------------------------------------------
(* Python built-ins.                                                       *)

None == "<None>"

\* bool(x) of a str-or-None value
Truthy(x) == x # None /\ x # ""

\* The characters the model uses, in ascending code point order.
CodePoints == "\n -./0123456789:<>ABCDEFGHIJKLMNOPQRSTUVWXYZabcdefghijklmnopqrstuvwxyz"
UpperCase == "ABCDEFGHIJKLMNOPQRSTUVWXYZ"
LowerCase == "abcdefghijklmnopqrstuvwxyz"

IndexIn(c, s) ==
    IF \E i \in 1..Len(s) : SubSeq(s, i, i) = c
    THEN CHOOSE i \in 1..Len(s) : SubSeq(s, i, i) = c
    ELSE 0

Characters == {SubSeq(CodePoints, i, i) : i \in 1..Len(CodePoints)}

\* ord(c), up to an order-preserving renumbering
OrdTable == [c \in Characters |-> IndexIn(c, CodePoints)]
Ord(c) == OrdTable[c]

\* c.lower()
LowerTable ==
    [c \in Characters |->
        IF IndexIn(c, UpperCase) = 0 THEN c
        ELSE SubSeq(LowerCase, IndexIn(c, UpperCase), IndexIn(c, UpperCase))]

RECURSIVE str_lower(_)
str_lower(s) ==
    IF s = "" THEN ""
    ELSE LowerTable[Head(s)] \o str_lower(Tail(s))

str_startswith(s, p) == Len(s) >= Len(p) /\ SubSeq(s, 1, Len(p)) = p

\* s < t on str: code point by code point, a proper prefix first
RECURSIVE str_less(_, _)
str_less(s, t) ==
    IF t = "" THEN FALSE
    ELSE IF s = "" THEN TRUE
    ELSE IF Head(s) = Head(t) THEN str_less(Tail(s), Tail(t))
    ELSE Ord(Head(s)) < Ord(Head(t))

\* (n1, v1) < (n2, v2) on tuples of str
pair_less(p, q) == str_less(p[1], q[1]) \/ (p[1] = q[1] /\ str_less(p[2], q[2]))

\* d.get(k, default)
dict_get(d, k, default) ==
    IF \E i \in 1..Len(d) : d[i][1] = k
    THEN d[CHOOSE i \in 1..Len(d) : d[i][1] = k][2]
    ELSE default

dict_has(d, k) == \E i \in 1..Len(d) : d[i][1] = k

\* d[k] = v
dict_set(d, k, v) ==
    IF dict_has(d, k)
    THEN [i \in 1..Len(d) |-> IF d[i][1] = k THEN <<k, v>> ELSE d[i]]
    ELSE Append(d, <<k, v>>)

\* A dict without one key.
dict_without(d, k) == SelectSeq(d, LAMBDA p : p[1] # k)

\* list.sort() on a list of tuples of str (stable insertion into a sorted list)
RECURSIVE list_insert(_, _)
list_insert(sorted, p) ==
    IF sorted = <<>> THEN <<p>>
    ELSE IF pair_less(p, Head(sorted)) THEN <<p>> \o sorted
    ELSE <<Head(sorted)>> \o list_insert(Tail(sorted), p)

RECURSIVE list_sort(_)
list_sort(l) ==
    IF l = <<>> THEN <<>>
    ELSE list_insert(list_sort(SubSeq(l, 1, Len(l) - 1)), l[Len(l)])

\* "".join(l)
RECURSIVE str_join(_)
str_join(l) == IF l = <<>> THEN "" ELSE Head(l) \o str_join(Tail(l))

-----------------------------------------------------------------------------
(* Collaborators outside client.py.                                        *)

\* s.rfind(c), 1-based; 0 when c does not occur
str_rfind(s, c) ==
    LET hits == {i \in 1..Len(s) : SubSeq(s, i, i) = c}
    IN  IF hits = {} THEN 0 ELSE CHOOSE i \in hits : \A j \in hits : j <= i

\* s.find(sub), 1-based; 0 when sub does not occur
str_find(s, sub) ==
    LET hits == {i \in 1..(Len(s) - Len(sub) + 1) : SubSeq(s, i, i + Len(sub) - 1) = sub}
    IN  IF hits = {} THEN 0 ELSE CHOOSE i \in hits : \A j \in hits : i <= j

\* posixpath.splitext(p)[1]: from the last dot of the last path component,
\* unless that component has only leading dots before it
splitext_ext(p) ==
    LET sep == str_rfind(p, "/")
        dot == str_rfind(p, ".")
    IN  IF dot > sep /\ (\E k \in (sep + 1)..(dot - 1) : SubSeq(p, k, k) # ".")
        THEN SubSeq(p, dot, Len(p))
        ELSE ""

\* mimetypes.types_map, the entries the model's object names can hit
types_map == <<<<".pdf", "application/pdf">>, <<".txt", "text/plain">>>>

\* mimetypes.guess_type(url, strict=False)[0]: the extension is looked up as
\* written and then lower-cased; None when the table has neither
guess_type(url) ==
    LET ext == splitext_ext(url)
    IN  IF dict_has(types_map, ext) THEN dict_get(types_map, ext, None)
        ELSE dict_get(types_map, str_lower(ext), None)

\* twisted.web.http.datetimeToString(): the clock as an RFC 1123 date
datetimeToString(t) ==
    "Thu, 01 Jan 1970 00:00:0" \o SubSeq("0123456789", t + 1, t + 1) \o " GMT"

\* txaws.util.calculate_md5(data): base64 of the MD5 digest, a symbolic
\* digest that is injective on the payloads of the model
calculate_md5(data) == "md5<" \o data \o ">"

\* creds.sign(text, hash_type="sha1") on a credentials object: base64 of the
\* HMAC, a symbolic MAC
creds_sign(creds, text) == "hmac-sha1<" \o creds.secret_key \o "," \o text \o ">"

\* txaws.service.S3_ENDPOINT
S3_ENDPOINT == "https://s3.amazonaws.com"

\* txaws.service.AWSServiceEndpoint(uri): the parsed scheme and host, method GET
AWSServiceEndpoint(uri) ==
    LET at == str_find(uri, "://")
    IN  [scheme |-> SubSeq(uri, 1, at - 1),
         host   |-> SubSeq(uri, at + 3, Len(uri)),
         method |-> "GET"]

\* AWSServiceEndpoint.set_method(method)
set_method(ep, method) == [ep EXCEPT !.method = method]

\* AWSServiceEndpoint.get_host()
endpoint_get_host(ep) == ep.host

\* txaws.client.base.BaseQuery.__init__(action=None, creds=None, endpoint=None)
BaseQuery__init__(action, creds, endpoint) ==
    [action |-> action, creds |-> creds, endpoint |-> endpoint]

-----------------------------------------------------------------------------
(* class Query                                                             *)

NoQuery ==
    [action |-> None, creds |-> None, endpoint |-> None, bucket |-> None,
     object_name |-> None, data |-> None, content_type |-> None, metadata |-> None,
     date |-> None]
NoArgs ==
    [action |-> None, creds |-> None, endpoint |-> None, bucket |-> None,
     object_name |-> None, data |-> None, content_type |-> None, metadata |-> None]
NoAddress == [host |-> None, path |-> None, uri |-> None]
NoHeaders == <<<<"<no headers>", None>>>>
NoRequest == [uri |-> None, method |-> None, postdata |-> None, headers |-> NoHeaders]

\* The endpoint object a new Query ends up with: its own default endpoint
\* (handle fresh) when none was passed or the one passed has no host.
Query__init__endpoint(eps, endpoint, fresh) ==
    IF ~Truthy(endpoint) \/ ~Truthy(eps[endpoint].host) THEN fresh ELSE endpoint

\* Query.__init__: the new object's attributes
Query__init__(eps, fresh, date, action, creds, endpoint, bucket, object_name, data, content_type, metadata) ==
    LET base == BaseQuery__init__(action, creds, endpoint)
    IN  [action       |-> base.action,
         creds        |-> base.creds,
         endpoint     |-> Query__init__endpoint(eps, base.endpoint, fresh),
         bucket       |-> bucket,
         object_name  |-> object_name,
         data         |-> data,
         content_type |-> content_type,
         metadata     |-> metadata,
         date         |-> date]

\* Query.__init__: what it does to the heap of endpoint objects
Query__init__heap(eps, fresh, action, endpoint) ==
    LET e    == Query__init__endpoint(eps, endpoint, fresh)
        eps1 == IF e = fresh THEN (fresh :> AWSServiceEndpoint(S3_ENDPOINT)) @@ eps
                ELSE eps
    IN  [eps1 EXCEPT ![e] = set_method(eps1[e], action)]

\* Mutant of get_host: path-style addressing, the bucket left out of the host.
get_host_path_style(q, eps) == endpoint_get_host(eps[q.endpoint])

get_host(q, eps) ==
    IF ~Truthy(q.bucket)
    THEN endpoint_get_host(eps[q.endpoint])
    ELSE q.bucket \o "." \o endpoint_get_host(eps[q.endpoint])

\* Mutant of get_path: the bucket is not looked at.
get_path_any_bucket(q) ==
    IF Truthy(q.object_name)
    THEN IF str_startswith(q.object_name, "/")
         THEN q.object_name
         ELSE "/" \o q.object_name
    ELSE "/"

get_path(q) ==
    IF q.bucket # None /\ Truthy(q.object_name)
    THEN IF str_startswith(q.object_name, "/")
         THEN q.object_name
         ELSE "/" \o q.object_name
    ELSE "/"

get_uri(q, eps) == eps[q.endpoint].scheme \o "://" \o get_host(q, eps) \o get_path(q)

\* Mutant of set_content_type: the type is guessed even when one was supplied.
set_content_type_always_guess(q) ==
    IF Truthy(q.object_name)
    THEN [q EXCEPT !.content_type = guess_type(q.object_name)]
    ELSE q

\* set_content_type: the Query after the call
set_content_type(q) ==
    IF Truthy(q.object_name) /\ ~Truthy(q.content_type)
    THEN [q EXCEPT !.content_type = guess_type(q.object_name)]
    ELSE q

\* Mutant of canonicalized_pairs: the list is not sorted.
canonicalized_pairs_unsorted(headers) ==
    SelectSeq([i \in 1..Len(headers) |->
                  <<str_lower(headers[i][1]), headers[i][2]>>],
              LAMBDA p : str_startswith(p[1], "x-amz-"))

\* The list get_canonicalized_amz_headers builds and sorts.
canonicalized_pairs(headers) ==
    list_sort(SelectSeq([i \in 1..Len(headers) |->
                            <<str_lower(headers[i][1]), headers[i][2]>>],
                        LAMBDA p : str_startswith(p[1], "x-amz-")))

get_canonicalized_amz_headers(headers) ==
    LET pairs == canonicalized_pairs(headers)
    IN  str_join([i \in 1..Len(pairs) |-> pairs[i][1] \o ":" \o pairs[i][2] \o "\n"])

\* Mutant of sign_text: the Date line is left empty.
sign_text_without_date(q, headers) ==
    q.action \o "\n" \o
    dict_get(headers, "Content-MD5", "") \o "\n" \o
    dict_get(headers, "Content-Type", "") \o "\n" \o
    "\n" \o
    get_canonicalized_amz_headers(headers) \o
    get_path(q)

\* The text sign() passes to creds.sign.
sign_text(q, headers) ==
    q.action \o "\n" \o
    dict_get(headers, "Content-MD5", "") \o "\n" \o
    dict_get(headers, "Content-Type", "") \o "\n" \o
    dict_get(headers, "Date", "") \o "\n" \o
    get_canonicalized_amz_headers(headers) \o
    get_path(q)

sign(q, headers, crs) == creds_sign(crs[q.creds], sign_text(q, headers))

\* for key, value in self.metadata.iteritems(): headers["x-amz-meta-" + key] = value
RECURSIVE add_metadata(_, _)
add_metadata(headers, metadata) ==
    IF metadata = <<>> THEN headers
    ELSE add_metadata(dict_set(headers, "x-amz-meta-" \o Head(metadata)[1], Head(metadata)[2]),
                      Tail(metadata))

\* get_headers up to the credentials test: the headers sign() is given.  q is
\* the Query after set_content_type(), mds the heap of metadata dicts.
headers_to_sign(q, mds) ==
    LET h0 == <<<<"Content-Length", Len(q.data)>>,
                <<"Content-MD5", calculate_md5(q.data)>>,
                <<"Date", q.date>>>>
        h1 == add_metadata(h0, mds[q.metadata])
    IN  IF q.content_type # None THEN dict_set(h1, "Content-Type", q.content_type) ELSE h1

\* Mutant of get_headers: the signature is computed before Content-Type is added.
get_headers_sign_early(q, mds, crs) ==
    LET q1 == set_content_type(q)
        h  == headers_to_sign(q1, mds)
    IN  IF q1.creds # None
        THEN dict_set(h, "Authorization",
                      "AWS " \o crs[q1.creds].access_key \o ":" \o
                      sign(q1, dict_without(h, "Content-Type"), crs))
        ELSE h

\* get_headers: the dict it returns
get_headers(q, mds, crs) ==
    LET q1 == set_content_type(q)
        h  == headers_to_sign(q1, mds)
    IN  IF q1.creds # None
        THEN dict_set(h, "Authorization",
                      "AWS " \o crs[q1.creds].access_key \o ":" \o sign(q1, h, crs))
        ELSE h

\* BaseQuery.get_page(url, method=, postdata=, headers=): the request the
\* transport is handed
get_page(url, method, postdata, headers) ==
    [uri |-> url, method |-> method, postdata |-> postdata, headers |-> headers]

\* Mutant of submit: the HTTP method is read from the endpoint object.
submit_endpoint_method(q, eps, mds, crs) ==
    get_page(get_uri(q, eps), eps[q.endpoint].method, q.data, get_headers(q, mds, crs))

\* submit: the request handed to the transport
submit(q, eps, mds, crs) ==
    get_page(get_uri(q, eps), q.action, q.data, get_headers(q, mds, crs))

-----------------------------------------------------------------------------
(* The objects the caller owns, and the inputs the operations are given.   *)

SharedEndpoints ==
    ("ep_shared" :> [scheme |-> "http", host |-> "storage.example.com", method |-> "GET"])
    @@ ("ep_nohost" :> [scheme |-> "http", host |-> "", method |-> "GET"])

Methods == {"GET", "PUT"}
CredsInputs == {None, "creds1"}
EndpointInputs == {None, "ep_shared", "ep_nohost"}
Buckets == {None, "", "docs"}
ObjectNames == {None, "", "report.pdf", "/raw/x.TXT", "notes"}
Payloads == {"", "hello"}
ContentTypes == {None, "", "image/png"}
\* The credentials objects the caller owns.
CredsStore ==
    ("creds1" :> [access_key |-> "AKID1", secret_key |-> "secret1"])
    @@ ("creds2" :> [access_key |-> "AKID2", secret_key |-> "secret2"])

\* The metadata dicts: the default argument of Query.__init__ (one object,
\* shared by every call that passes none) and the dicts a and b the caller
\* owns.
MetadataHeap(a, b) == ("md_default" :> <<>>) @@ ("md_a" :> a) @@ ("md_b" :> b)

MetadataInputs ==
    {<<<<"owner", "alice">>>>,
     <<<<"Team", "core">>, <<"owner", "alice">>>>}

\* The default endpoint object a Query allocates for itself.
OwnEndpoint(i) == "ep_own_" \o ToString(i)

-----------------------------------------------------------------------------
(* Operations on Query objects.                                            *)

IsQuery(q) == q.action # None

\* query = Query(bucket, object_name, data, content_type, metadata,
\*               action, creds, endpoint)
Construct(i, action, creds, endpoint, bucket, object_name, data, content_type, metadata) ==
    /\ ~IsQuery(queries[i])
    /\ queries' = [queries EXCEPT ![i] =
           Query__init__(endpoints, OwnEndpoint(i), datetimeToString(now), action, creds,
                         endpoint, bucket, object_name, data, content_type, metadata)]
    /\ endpoints' = Query__init__heap(endpoints, OwnEndpoint(i), action, endpoint)
    /\ ctor_args' = [ctor_args EXCEPT ![i] =
           [action |-> action, creds |-> creds, endpoint |-> endpoint, bucket |-> bucket,
            object_name |-> object_name, data |-> data, content_type |-> content_type,
            metadata |-> metadata]]
    /\ UNCHANGED <<now, credentials, mappings, address, headers_out, signed_text,
                   canon_out, last_req, first_req>>
    /\ UNCHANGED <<facade_vars, list_vars>>

\* host, path, uri = query.get_host(), query.get_path(), query.get_uri()
GetAddress(i) ==
    /\ IsQuery(queries[i])
    /\ address' = [address EXCEPT ![i] =
           [host |-> get_host(queries[i], endpoints),
            path |-> get_path(queries[i]),
            uri  |-> get_uri(queries[i], endpoints)]]
    /\ UNCHANGED <<now, endpoints, credentials, mappings, ctor_args, queries, headers_out,
                   signed_text, canon_out, last_req, first_req>>
    /\ UNCHANGED <<facade_vars, list_vars>>

\* What a get_headers() call leaves behind: the guessed content type on the
\* Query, and the text given to creds.sign.
AfterGetHeaders(i) ==
    LET q1 == set_content_type(queries[i])
    IN  /\ queries' = [queries EXCEPT ![i] = q1]
        /\ signed_text' = [signed_text EXCEPT ![i] =
               IF q1.creds # None THEN sign_text(q1, headers_to_sign(q1, mappings)) ELSE @]
        /\ canon_out' = [canon_out EXCEPT ![i] =
               IF q1.creds # None
               THEN get_canonicalized_amz_headers(headers_to_sign(q1, mappings))
               ELSE @]

\* headers = query.get_headers()
GetHeaders(i) ==
    /\ IsQuery(queries[i])
    /\ headers_out' = [headers_out EXCEPT ![i] =
           get_headers(queries[i], mappings, credentials)]
    /\ AfterGetHeaders(i)
    /\ UNCHANGED <<now, endpoints, credentials, mappings, ctor_args, address,
                   last_req, first_req>>
    /\ UNCHANGED <<facade_vars, list_vars>>

\* d = query.submit()
Submit(i) ==
    /\ IsQuery(queries[i])
    /\ last_req' = [last_req EXCEPT ![i] =
           submit(queries[i], endpoints, mappings, credentials)]
    /\ first_req' = [first_req EXCEPT ![i] =
           IF @.uri = None THEN submit(queries[i], endpoints, mappings, credentials) ELSE @]
    /\ AfterGetHeaders(i)
    /\ UNCHANGED <<now, endpoints, credentials, mappings, ctor_args, address, headers_out>>
    /\ UNCHANGED <<facade_vars, list_vars>>

\* Time passes.
Tick ==
    /\ now < MaxClock
    /\ now' = now + 1
    /\ UNCHANGED <<endpoints, credentials, mappings, ctor_args, queries, address,
                   headers_out, signed_text, canon_out, last_req, first_req>>
    /\ UNCHANGED <<facade_vars, list_vars>>

-----------------------------------------------------------------------------
(* The facade and listing variables where a specification does not use     *)
(* them.                                                                   *)

NoClient == [query_factory |-> None, creds |-> None, endpoint |-> None]
NoCall == [op |-> None, args |-> NoArgs]
NoOutcome == [raised |-> None, constructed |-> 0, query |-> NoQuery, requests |-> <<>>]
NoResponse == [status |-> None, body |-> <<>>]
NoDeferred == [state |-> None, value |-> None]
NoGen == [state |-> None, pos |-> 0, error |-> None]

FacadeIdle == client = NoClient /\ call = NoCall /\ outcome = NoOutcome
ListIdle ==
    /\ response = NoResponse
    /\ deferred = NoDeferred
    /\ gen = NoGen
    /\ consumed = <<>>
    /\ passes = 0

QueriesIdle(ids) ==
    /\ endpoints = SharedEndpoints
    /\ credentials = CredsStore
    /\ ctor_args = [i \in ids |-> NoArgs]
    /\ queries = [i \in ids |-> NoQuery]
    /\ address = [i \in ids |-> NoAddress]
    /\ headers_out = [i \in ids |-> NoHeaders]
    /\ signed_text = [i \in ids |-> None]
    /\ canon_out = [i \in ids |-> None]
    /\ last_req = [i \in ids |-> NoRequest]
    /\ first_req = [i \in ids |-> NoRequest]

-----------------------------------------------------------------------------
(* SpecQuery: one Query, built from every combination of the inputs, and   *)
(* its methods.                                                            *)

InitQuery ==
    /\ now = 0
    /\ QueriesIdle({1})
    /\ \E a \in MetadataInputs : mappings = MetadataHeap(a, <<>>)
    /\ FacadeIdle
    /\ ListIdle

ConstructAny(i) ==
    \E action \in Methods, creds \in CredsInputs, endpoint \in EndpointInputs,
       bucket \in Buckets, object_name \in ObjectNames, data \in Payloads,
       content_type \in ContentTypes, metadata \in {"md_default", "md_a"} :
        Construct(i, action, creds, endpoint, bucket, object_name, data,
                  content_type, metadata)

NextQuery ==
    \E i \in DOMAIN queries :
        \/ ConstructAny(i)
        \/ GetAddress(i)
        \/ GetHeaders(i)
        \/ Submit(i)

SpecQuery == InitQuery /\ [][NextQuery]_vars

-----------------------------------------------------------------------------
(* Claims about one Query (SpecQuery).                                     *)

\* The lines of a text, split at each newline.
RECURSIVE text_lines(_)
text_lines(s) ==
    LET at == str_find(s, "\n")
    IN  IF at = 0 THEN <<s>>
        ELSE <<SubSeq(s, 1, at - 1)>> \o text_lines(SubSeq(s, at + 1, Len(s)))

\* The path the spec gives an object name: "/" when none is set, the name
\* itself when it starts with "/", "/" + name otherwise.
PathOfName(name) ==
    IF ~Truthy(name) THEN "/"
    ELSE IF SubSeq(name, 1, 1) = "/" THEN name
    ELSE "/" \o name

\* C1 as stated: get_path() is "/" + object_name, or the object name verbatim
\* when it starts with "/", or "/" when no object name is set, for every
\* combination of bucket (set or unset) and object name.
C1_PathForEveryBucket ==
    \A i \in DOMAIN queries :
        address[i].uri # None =>
            address[i].path = PathOfName(ctor_args[i].object_name)

\* C1 amended: the three cases hold when the bucket is not None; when the
\* bucket is None get_path() is "/" whatever the object name.
C1_PathWhenBucketGiven ==
    \A i \in DOMAIN queries :
        address[i].uri # None =>
            address[i].path = IF ctor_args[i].bucket # None
                              THEN PathOfName(ctor_args[i].object_name)
                              ELSE "/"

\* C1 witness: get_path() has run on a Query with a bucket and an object name
\* that starts with "/", and on one with no bucket and an object name.
C1_Witness ==
    \E i \in DOMAIN queries :
        /\ address[i].uri # None
        /\ ctor_args[i].bucket = "docs"
        /\ ctor_args[i].object_name = "/raw/x.TXT"
        /\ address[i].path = "/raw/x.TXT"

\* C2: get_host() is bucket + "." + endpoint host when a bucket is set and the
\* endpoint host unchanged when none is (None or empty); get_uri() is
\* scheme + "://" + get_host() + get_path().
C2_HostAndUri ==
    \A i \in DOMAIN queries :
        address[i].uri # None =>
            LET b  == ctor_args[i].bucket
                ep == endpoints[queries[i].endpoint]
            IN  /\ address[i].host = IF Truthy(b) THEN b \o "." \o ep.host ELSE ep.host
                /\ address[i].uri = ep.scheme \o "://" \o address[i].host \o address[i].path

\* C2 witness: get_host() has run on a Query with a bucket and a caller's
\* endpoint.
C2_Witness ==
    \E i \in DOMAIN queries :
        /\ ctor_args[i].bucket = "docs"
        /\ ctor_args[i].endpoint = "ep_shared"
        /\ address[i].host = "docs.storage.example.com"
        /\ address[i].uri = "http://docs.storage.example.com/report.pdf"

\* The signing text of section 4.3, read off a header set.
SpecSigningText(method, headers, path) ==
    method \o "\n" \o
    dict_get(headers, "Content-MD5", "") \o "\n" \o
    dict_get(headers, "Content-Type", "") \o "\n" \o
    dict_get(headers, "Date", "") \o "\n" \o
    get_canonicalized_amz_headers(headers) \o
    path

\* C5: get_headers() always returns Content-Length, Content-MD5 and Date, and
\* an Authorization header exactly when the Query has credentials; its value
\* is "AWS <access-key>:<signature>", the signature being over the header set
\* without Authorization.
C5_MandatoryAndAuthorization ==
    \A i \in DOMAIN queries :
        headers_out[i] # NoHeaders =>
            LET h     == headers_out[i]
                creds == ctor_args[i].creds
                rest  == dict_without(h, "Authorization")
                owner == CredsStore[creds]
            IN  /\ dict_has(h, "Content-Length")
                /\ dict_has(h, "Content-MD5")
                /\ dict_has(h, "Date")
                /\ dict_has(h, "Authorization") <=> creds # None
                /\ creds # None =>
                       dict_get(h, "Authorization", None) =
                           "AWS " \o owner.access_key \o ":" \o
                           creds_sign(owner, SpecSigningText(ctor_args[i].action, rest,
                                                             get_path(queries[i])))

\* C5 witness: get_headers() has run on a Query with credentials and a
\* content type, and returned an Authorization header.
C5_Witness ==
    \E i \in DOMAIN queries :
        /\ headers_out[i] # NoHeaders
        /\ ctor_args[i].creds = "creds1"
        /\ dict_has(headers_out[i], "Content-Type")
        /\ dict_has(headers_out[i], "Authorization")

\* The content type the spec has get_headers() send for constructor
\* arguments a: the supplied one, else the one inferred from the object
\* name, else None (no header).
SpecContentType(a, supplied) ==
    IF supplied THEN a.content_type
    ELSE IF Truthy(a.object_name) THEN guess_type(a.object_name)
    ELSE None

\* What C9 says of one get_headers() result, given which content types count
\* as supplied and the value expected in the header.
ContentTypeSent(i, expected) ==
    /\ IF expected # None
       THEN dict_get(headers_out[i], "Content-Type", None) = expected
       ELSE ~dict_has(headers_out[i], "Content-Type")
    /\ signed_text[i] # None =>
           text_lines(signed_text[i])[3] = (IF expected # None THEN expected ELSE "")

\* C9 as stated: with no content type supplied the type inferred from the
\* object name is sent and signed; if inference fails or there is no object
\* name the header is omitted and the signed Content-Type line is empty; a
\* supplied content type is never replaced.
C9_InferredContentType ==
    \A i \in DOMAIN queries :
        headers_out[i] # NoHeaders =>
            ContentTypeSent(i, SpecContentType(ctor_args[i],
                                               Truthy(ctor_args[i].content_type)))

\* C9 amended: as stated, except that an empty-string content type passed
\* with no object name is sent as a Content-Type header with an empty value
\* (the signed Content-Type line is empty all the same).
C9_InferredUnlessEmptyGiven ==
    \A i \in DOMAIN queries :
        headers_out[i] # NoHeaders =>
            LET a == ctor_args[i]
            IN  IF a.content_type = "" /\ ~Truthy(a.object_name)
                THEN /\ dict_get(headers_out[i], "Content-Type", None) = ""
                     /\ signed_text[i] # None => text_lines(signed_text[i])[3] = ""
                ELSE ContentTypeSent(i, SpecContentType(a, Truthy(a.content_type)))

\* C9 witness: put of "report.pdf" into "docs" with no content type and with
\* credentials: "application/pdf" is sent and signed.
C9_Witness ==
    \E i \in DOMAIN queries :
        /\ ctor_args[i].object_name = "report.pdf"
        /\ ctor_args[i].bucket = "docs"
        /\ ctor_args[i].content_type = None
        /\ headers_out[i] # NoHeaders
        /\ dict_get(headers_out[i], "Content-Type", None) = "application/pdf"
        /\ signed_text[i] # None
        /\ text_lines(signed_text[i])[3] = "application/pdf"

-----------------------------------------------------------------------------
(* SpecCanon: one signed Query over every metadata mapping of up to        *)
(* MaxMeta entries, in every iteration order.                              *)

MetaKeys == {"Team", "owner", "team"}
MetaValues == {"a", "b"}

\* Every dict of at most n entries over MetaKeys and MetaValues, in every order.
RECURSIVE MetadataUpTo(_)
MetadataUpTo(n) ==
    IF n = 0 THEN {<<>>}
    ELSE LET shorter == MetadataUpTo(n - 1)
         IN  shorter \cup
             {Append(m, <<k, v>>) : m \in {x \in shorter : Len(x) = n - 1},
                                    k \in MetaKeys, v \in MetaValues}

IsDict(d) == \A i, j \in 1..Len(d) : d[i][1] = d[j][1] => i = j

InitCanon ==
    /\ now = 0
    /\ QueriesIdle({1})
    /\ \E a \in {m \in MetadataUpTo(MaxMeta) : IsDict(m)} : mappings = MetadataHeap(a, <<>>)
    /\ FacadeIdle
    /\ ListIdle

ConstructWithMetadata(i) ==
    \E object_name \in {None, "report.pdf"}, content_type \in {None, "image/png"},
       creds \in CredsInputs :
        Construct(i, "PUT", creds, "ep_shared", "docs", object_name, "hello",
                  content_type, "md_a")

NextCanon ==
    \E i \in DOMAIN queries :
        \/ ConstructWithMetadata(i)
        \/ GetHeaders(i)

SpecCanon == InitCanon /\ [][NextCanon]_vars

\* The name and the value of a "name:value" line.
line_name(l) == SubSeq(l, 1, str_find(l, ":") - 1)
line_value(l) == SubSeq(l, str_find(l, ":") + 1, Len(l))

Reverse(l) == [i \in 1..Len(l) |-> l[Len(l) + 1 - i]]

\* C4: get_canonicalized_amz_headers emits exactly one "name:value\n" line for
\* each header whose name begins, case-insensitively, with x-amz-meta- and
\* for no other header, the names lower-cased and the lines in ascending
\* order of the lower-cased name, whatever the order of the metadata.
C4_CanonicalizedMetadata ==
    \A i \in DOMAIN queries :
        (canon_out[i] # None /\ headers_out[i] # NoHeaders) =>
            LET given == dict_without(headers_out[i], "Authorization")
                meta  == SelectSeq(given,
                             LAMBDA p : str_startswith(str_lower(p[1]), "x-amz-meta-"))
                all   == text_lines(canon_out[i])
                lines == SubSeq(all, 1, Len(all) - 1)
            IN  /\ all[Len(all)] = ""
                /\ Len(lines) = Len(meta)
                /\ \A j \in 1..Len(meta) :
                       Cardinality({k \in 1..Len(lines) :
                                       /\ line_name(lines[k]) = str_lower(meta[j][1])
                                       /\ line_value(lines[k]) = meta[j][2]})
                       = Cardinality({k \in 1..Len(meta) :
                                       /\ str_lower(meta[k][1]) = str_lower(meta[j][1])
                                       /\ meta[k][2] = meta[j][2]})
                /\ \A k \in 1..Len(lines) : line_name(lines[k]) = str_lower(line_name(lines[k]))
                /\ \A j, k \in 1..Len(lines) :
                       j < k => ~str_less(line_name(lines[k]), line_name(lines[j]))
                /\ canon_out[i] = get_canonicalized_amz_headers(Reverse(given))

\* C4 witness: metadata with keys "Team" then "owner" has been canonicalized,
\* the owner line first.
C4_Witness ==
    \E i \in DOMAIN queries :
        /\ ctor_args[i].metadata = "md_a"
        /\ mappings["md_a"] = <<<<"Team", "a">>, <<"owner", "b">>>>
        /\ headers_out[i] # NoHeaders
        /\ canon_out[i] = "x-amz-meta-owner:b\nx-amz-meta-team:a\n"

-----------------------------------------------------------------------------
(* SpecSign: two Queries with the same credentials, built at any two times *)
(* from any two sets of arguments, Query 1 with the caller's dict a and    *)
(* Query 2 with the caller's dict b, each signing its headers.             *)

InitSign ==
    /\ now = 0
    /\ QueriesIdle({1, 2})
    /\ \E a, b \in {<<>>, <<<<"Team", "a">>>>, <<<<"team", "a">>>>} :
           mappings = MetadataHeap(a, b)
    /\ FacadeIdle
    /\ ListIdle

ConstructToSign(i) ==
    \E action \in Methods, data \in Payloads, content_type \in ContentTypes,
       object_name \in {None, "notes"} :
        Construct(i, action, "creds1", "ep_shared", "docs", object_name, data,
                  content_type, IF i = 1 THEN "md_a" ELSE "md_b")

NextSign ==
    \/ Tick
    \/ \E i \in DOMAIN queries :
        \/ ConstructToSign(i)
        \/ GetHeaders(i)

SpecSign == InitSign /\ [][NextSign]_vars

SignedParts == {"method", "md5", "ctype", "date", "meta", "path"}

\* The six things C3 lists, as Query i and the headers it sent have them.
PartsSent(i) ==
    LET h == headers_out[i]
    IN  [method |-> queries[i].action,
         md5    |-> dict_get(h, "Content-MD5", None),
         ctype  |-> dict_get(h, "Content-Type", None),
         date   |-> dict_get(h, "Date", None),
         meta   |-> {h[k] : k \in {j \in 1..Len(h) :
                             str_startswith(str_lower(h[j][1]), "x-amz-meta-")}},
         path   |-> get_path(queries[i])]

\* The same six as they enter the signed text: a missing Content-Type as the
\* empty string, the metadata headers canonicalized.
PartsSigned(i) ==
    [PartsSent(i) EXCEPT !.ctype = dict_get(headers_out[i], "Content-Type", ""),
                         !.meta = canon_out[i]]

Differing(a, b) == {f \in SignedParts : a[f] # b[f]}

BothSigned == \A i \in DOMAIN queries : headers_out[i] # NoHeaders /\ signed_text[i] # None

Signature(i) == dict_get(headers_out[i], "Authorization", None)

\* Two Queries alike in all six parts and in credentials sign the same text
\* and get the same signature.
SigningDeterministic ==
    (/\ Differing(PartsSent(1), PartsSent(2)) = {}
     /\ queries[1].creds = queries[2].creds)
    => (signed_text[1] = signed_text[2] /\ Signature(1) = Signature(2))

\* C3 as stated: signing is deterministic, and two Queries that differ in
\* exactly one of method, Content-MD5, Content-Type, Date, metadata headers
\* and path pass different texts to creds.sign.
C3_SigningSensitive ==
    BothSigned =>
        /\ SigningDeterministic
        /\ Cardinality(Differing(PartsSent(1), PartsSent(2))) = 1
               => signed_text[1] # signed_text[2]

\* C3 amended: signing is deterministic, and two Queries that differ in
\* exactly one of method, Content-MD5, Content-Type (a missing header taken
\* as empty), Date, canonicalized metadata headers and path pass different
\* texts to creds.sign and get different signatures.
C3_SigningSensitiveCanonical ==
    BothSigned =>
        /\ SigningDeterministic
        /\ Cardinality(Differing(PartsSigned(1), PartsSigned(2))) = 1
               => (signed_text[1] # signed_text[2] /\ Signature(1) # Signature(2))
        /\ Differing(PartsSigned(1), PartsSigned(2)) = {}
               => signed_text[1] = signed_text[2]

\* C3 witness: two signed Queries that differ only in their Date, with
\* different signed texts.
C3_Witness ==
    /\ BothSigned
    /\ Differing(PartsSigned(1), PartsSigned(2)) = {"date"}
    /\ mappings[queries[1].metadata] = <<<<"Team", "a">>>>
    /\ signed_text[1] # signed_text[2]

-----------------------------------------------------------------------------
(* Spec: NumQueries Queries that share one endpoint object (Query 1 may    *)
(* also be given none), one credentials object and one metadata dict,      *)
(* their constructions, get_headers() calls and submit() calls interleaved *)
(* in every order while time passes.                                       *)

SharedMetadata == MetadataHeap(<<<<"owner", "alice">>>>, <<>>)

Init ==
    /\ now = 0
    /\ QueriesIdle(1..NumQueries)
    /\ mappings = SharedMetadata
    /\ FacadeIdle
    /\ ListIdle

ConstructShared(i) ==
    \E action \in Methods, endpoint \in IF i = 1 THEN {"ep_shared", None} ELSE {"ep_shared"} :
        Construct(i, action, "creds1", endpoint, "docs", "report.pdf", "hello", None, "md_a")

Next ==
    \/ Tick
    \/ \E i \in DOMAIN queries :
        \/ ConstructShared(i)
        \/ GetHeaders(i)
        \/ Submit(i)

Spec == Init /\ [][Next]_vars

\* Query i is constructed in this step.
Constructed(i) == ~IsQuery(queries[i]) /\ IsQuery(queries'[i])

\* What a step may write of the shared objects: nothing of the credentials
\* and the metadata dicts, and of an endpoint object only its method field,
\* in the step that constructs a Query on it, to that Query's action.
SharedWrites ==
    /\ credentials' = credentials
    /\ mappings' = mappings
    /\ \A e \in DOMAIN endpoints :
        /\ e \in DOMAIN endpoints'
        /\ endpoints'[e].scheme = endpoints[e].scheme
        /\ endpoints'[e].host = endpoints[e].host
        /\ endpoints'[e].method # endpoints[e].method =>
               \E i \in DOMAIN queries : Constructed(i) /\ queries'[i].endpoint = e
    /\ \A i \in DOMAIN queries :
           Constructed(i) => endpoints'[queries'[i].endpoint].method = queries'[i].action

\* The request Query i hands to the transport when it is the only Query:
\* built at the same time from the same arguments on the objects as the
\* caller made them.
AloneRequest(i) ==
    LET a    == ctor_args[i]
        eps0 == Query__init__heap(SharedEndpoints, OwnEndpoint(i), a.action, a.endpoint)
        q0   == Query__init__(SharedEndpoints, OwnEndpoint(i), queries[i].date, a.action,
                              a.creds, a.endpoint, a.bucket, a.object_name, a.data,
                              a.content_type, a.metadata)
    IN  submit(q0, eps0, SharedMetadata, CredsStore)

\* Every request and header set of every Query is the one it produces alone,
\* and the same on every call.
SameAsAlone ==
    \A i \in DOMAIN queries :
        /\ last_req[i].uri # None =>
               (last_req[i] = AloneRequest(i) /\ first_req[i] = last_req[i])
        /\ headers_out[i] # NoHeaders => headers_out[i] = AloneRequest(i).headers

\* C10: in every interleaving, constructing a Query writes only the method
\* field of its endpoint (to its action), no Query operation writes anything
\* else of the endpoint, the credentials or the metadata dict, and what each
\* Query hands to the transport is what it hands alone, on every call.
C10_Independent == [][SharedWrites]_vars /\ []SameAsAlone

\* C10 witness: a Query has computed its headers and submitted after a later
\* Query with another action overwrote the method of the endpoint they share.
C10_Witness ==
    \E i, j \in DOMAIN queries :
        /\ i # j
        /\ queries[i].endpoint = "ep_shared"
        /\ queries[j].endpoint = "ep_shared"
        /\ queries[i].action = "GET"
        /\ endpoints["ep_shared"].method = "PUT"
        /\ first_req[i].uri # None
        /\ headers_out[i] # NoHeaders
        /\ queries[i].date # queries[j].date

-----------------------------------------------------------------------------
(* class S3Client                                                          *)

\* How Python binds the arguments of a call f(*pos, **kw) to the named
\* parameters params of f (with their defaults): the bound parameters, and
\* the positional and keyword arguments left over for *args and **kwargs.
\* A keyword that names a parameter already bound by position is a TypeError.
bind_arguments(params, defaults, pos, kw) ==
    LET n     == IF Len(pos) < Len(params) THEN Len(pos) ELSE Len(params)
        named == {params[j] : j \in 1..Len(params)}
        byPos == {params[j] : j \in 1..n}
    IN  [raised    |-> IF \E k \in 1..Len(kw) : kw[k][1] \in byPos
                       THEN "TypeError" ELSE None,
         bound     |-> [j \in 1..Len(params) |->
                           <<params[j],
                             IF j <= n THEN pos[j]
                             ELSE dict_get(kw, params[j], defaults[j])>>],
         extra_pos |-> SubSeq(pos, n + 1, Len(pos)),
         extra_kw  |-> SelectSeq(kw, LAMBDA p : p[1] \notin named)]

\* def __init__(self, bucket=None, object_name=None, data="",
\*              content_type=None, metadata={}, *args, **kwargs)
QueryParams == <<"bucket", "object_name", "data", "content_type", "metadata">>
QueryDefaults == <<None, None, "", None, "md_default">>

\* BaseQuery: def __init__(self, action=None, creds=None, endpoint=None)
BaseQueryParams == <<"action", "creds", "endpoint">>
BaseQueryDefaults == <<None, None, None>>

\* Query(*pos, **kw): the constructor arguments as bound, or the TypeError of
\* a call that does not bind.
Query_call(pos, kw) ==
    LET own  == bind_arguments(QueryParams, QueryDefaults, pos, kw)
        base == bind_arguments(BaseQueryParams, BaseQueryDefaults,
                               own.extra_pos, own.extra_kw)
    IN  IF \/ own.raised # None
           \/ base.raised # None
           \/ base.extra_pos # <<>>
           \/ base.extra_kw # <<>>
        THEN [raised |-> "TypeError", args |-> NoArgs]
        ELSE [raised |-> None,
              args   |-> [action       |-> dict_get(base.bound, "action", None),
                          creds        |-> dict_get(base.bound, "creds", None),
                          endpoint     |-> dict_get(base.bound, "endpoint", None),
                          bucket       |-> dict_get(own.bound, "bucket", None),
                          object_name  |-> dict_get(own.bound, "object_name", None),
                          data         |-> dict_get(own.bound, "data", None),
                          content_type |-> dict_get(own.bound, "content_type", None),
                          metadata     |-> dict_get(own.bound, "metadata", None)]]

\* S3Client.__init__(creds, endpoint, query_factory=None): the attributes set
S3Client__init__(creds, endpoint, query_factory) ==
    [query_factory |-> IF query_factory = None THEN "Query" ELSE query_factory,
     creds         |-> creds,
     endpoint      |-> endpoint]

\* factory(*pos, **kw).submit() for the factory Query: what the call raises,
\* the Query constructed and the requests handed to the transport.
construct_and_submit(eps, mds, crs, date, fresh, pos, kw) ==
    LET c    == Query_call(pos, kw)
        a    == c.args
        q    == Query__init__(eps, fresh, date, a.action, a.creds, a.endpoint, a.bucket,
                              a.object_name, a.data, a.content_type, a.metadata)
        eps1 == Query__init__heap(eps, fresh, a.action, a.endpoint)
    IN  IF c.raised # None
        THEN [raised |-> c.raised, constructed |-> 0, query |-> NoQuery, requests |-> <<>>]
        ELSE [raised |-> None, constructed |-> 1, query |-> set_content_type(q),
              requests |-> <<submit(q, eps1, mds, crs)>>]

\* self.make_request(*pos).submit(): make_request reads self.request_factory
make_request_and_submit(cl, eps, mds, crs, date, fresh, pos) ==
    IF "request_factory" \notin DOMAIN cl
    THEN [raised |-> "AttributeError", constructed |-> 0, query |-> NoQuery,
          requests |-> <<>>]
    ELSE construct_and_submit(eps, mds, crs, date, fresh, pos,
                              <<<<"creds", cl.creds>>, <<"endpoint", cl.endpoint>>>>)

create_bucket(cl, eps, mds, crs, date, fresh, bucket) ==
    construct_and_submit(eps, mds, crs, date, fresh,
                         <<"PUT", cl.creds, cl.endpoint>>, <<<<"bucket", bucket>>>>)

delete_bucket(cl, eps, mds, crs, date, fresh, bucket) ==
    make_request_and_submit(cl, eps, mds, crs, date, fresh, <<"DELETE", bucket>>)

put_object(cl, eps, mds, crs, date, fresh, bucket, object_name, data, content_type, metadata) ==
    make_request_and_submit(cl, eps, mds, crs, date, fresh,
                            <<"PUT", bucket, object_name, data, content_type, metadata>>)

get_object(cl, eps, mds, crs, date, fresh, bucket, object_name) ==
    make_request_and_submit(cl, eps, mds, crs, date, fresh, <<"GET", bucket, object_name>>)

head_object(cl, eps, mds, crs, date, fresh, bucket, object_name) ==
    make_request_and_submit(cl, eps, mds, crs, date, fresh, <<"HEAD", bucket, object_name>>)

delete_object(cl, eps, mds, crs, date, fresh, bucket, object_name) ==
    make_request_and_submit(cl, eps, mds, crs, date, fresh, <<"DELETE", bucket, object_name>>)

\* list_buckets up to query.submit()
list_buckets_submit(cl, eps, mds, crs, date, fresh) ==
    construct_and_submit(eps, mds, crs, date, fresh, <<>>,
                         <<<<"action", "GET">>, <<"creds", cl.creds>>,
                           <<"endpoint", cl.endpoint>>>>)

-----------------------------------------------------------------------------
(* SpecFacade: one S3Client, built with any credentials and endpoint and   *)
(* the default query factory, and calls of its operations.                 *)

InitFacade ==
    /\ now = 0
    /\ QueriesIdle({1})
    /\ mappings = MetadataHeap(<<<<"owner", "alice">>>>, <<>>)
    /\ \E creds \in CredsInputs, endpoint \in {None, "ep_shared"} :
           client = S3Client__init__(creds, endpoint, None)
    /\ call = NoCall
    /\ outcome = NoOutcome
    /\ ListIdle

\* The arguments of a facade call, with the defaults of the ones it lacks.
CallArgs(bucket, object_name, data, content_type, metadata) ==
    [NoArgs EXCEPT !.bucket = bucket, !.object_name = object_name, !.data = data,
                   !.content_type = content_type, !.metadata = metadata]

\* What a facade call does: a Query that was constructed has written its
\* endpoint's method.
FacadeCall(op, args, result) ==
    /\ call' = [op |-> op, args |-> args]
    /\ outcome' = result
    /\ endpoints' = IF result.constructed = 0 THEN endpoints
                    ELSE Query__init__heap(endpoints, OwnEndpoint(1), result.query.action,
                                           client.endpoint)
    /\ UNCHANGED <<now, credentials, mappings, ctor_args, queries, address, headers_out,
                   signed_text, canon_out, last_req, first_req>>
    /\ UNCHANGED <<client, list_vars>>

CreateBucket ==
    \E bucket \in Buckets \ {None} :
        FacadeCall("create_bucket", CallArgs(bucket, None, "", None, "md_default"),
                   create_bucket(client, endpoints, mappings, credentials,
                                 datetimeToString(now), OwnEndpoint(1), bucket))

DeleteBucket ==
    \E bucket \in Buckets \ {None} :
        FacadeCall("delete_bucket", CallArgs(bucket, None, "", None, "md_default"),
                   delete_bucket(client, endpoints, mappings, credentials,
                                 datetimeToString(now), OwnEndpoint(1), bucket))

PutObject ==
    \E bucket \in Buckets \ {None}, object_name \in ObjectNames \ {None},
       data \in Payloads, content_type \in ContentTypes,
       metadata \in {"md_default", "md_a"} :
        FacadeCall("put_object", CallArgs(bucket, object_name, data, content_type, metadata),
                   put_object(client, endpoints, mappings, credentials,
                              datetimeToString(now), OwnEndpoint(1), bucket, object_name,
                              data, content_type, metadata))

GetObject ==
    \E bucket \in Buckets \ {None}, object_name \in ObjectNames \ {None} :
        FacadeCall("get_object", CallArgs(bucket, object_name, "", None, "md_default"),
                   get_object(client, endpoints, mappings, credentials,
                              datetimeToString(now), OwnEndpoint(1), bucket, object_name))

HeadObject ==
    \E bucket \in Buckets \ {None}, object_name \in ObjectNames \ {None} :
        FacadeCall("head_object", CallArgs(bucket, object_name, "", None, "md_default"),
                   head_object(client, endpoints, mappings, credentials,
                               datetimeToString(now), OwnEndpoint(1), bucket, object_name))

DeleteObject ==
    \E bucket \in Buckets \ {None}, object_name \in ObjectNames \ {None} :
        FacadeCall("delete_object", CallArgs(bucket, object_name, "", None, "md_default"),
                   delete_object(client, endpoints, mappings, credentials,
                                 datetimeToString(now), OwnEndpoint(1), bucket, object_name))

NextFacade ==
    \/ CreateBucket
    \/ DeleteBucket
    \/ PutObject
    \/ GetObject
    \/ HeadObject
    \/ DeleteObject

SpecFacade == InitFacade /\ [][NextFacade]_vars

\* The HTTP method of each facade operation.
MethodOf(op) ==
    CASE op = "create_bucket" -> "PUT"
      [] op = "delete_bucket" -> "DELETE"
      [] op = "put_object"    -> "PUT"
      [] op = "get_object"    -> "GET"
      [] op = "head_object"   -> "HEAD"
      [] op = "delete_object" -> "DELETE"

\* C6: each call of create_bucket, delete_bucket, put_object, get_object,
\* head_object or delete_object constructs one Query whose action is the
\* operation's HTTP method and whose bucket, object name, payload, content
\* type and metadata are the call's arguments, and hands exactly one request
\* to the transport.
C6_OneQueryOneRequest ==
    call.op # None =>
        /\ outcome.raised = None
        /\ outcome.constructed = 1
        /\ outcome.query.action = MethodOf(call.op)
        /\ outcome.query.bucket = call.args.bucket
        /\ outcome.query.object_name = call.args.object_name
        /\ outcome.query.data = call.args.data
        /\ outcome.query.metadata = call.args.metadata
        /\ Len(outcome.requests) = 1
        /\ outcome.requests[1].method = MethodOf(call.op)

-----------------------------------------------------------------------------
(* list_buckets: the listing document, its parsing and the Deferred.       *)

\* A document is the sequence of its tokens: start tags "<T>", end tags
\* "</T>" and character data.
is_end_tag(t) == str_startswith(t, "</")
is_start_tag(t) == str_startswith(t, "<") /\ ~is_end_tag(t)
start_tag_name(t) == SubSeq(t, 2, Len(t) - 1)
end_tag_of(t) == "</" \o start_tag_name(t) \o ">"

\* The run of sibling nodes that starts at token p: the elements, the
\* character data, the place of the first token after the run, and whether
\* every element of the run is closed by its own end tag.
RECURSIVE parse_content(_, _)
parse_content(toks, p) ==
    IF p > Len(toks) \/ is_end_tag(toks[p])
    THEN [ok |-> TRUE, children |-> <<>>, text |-> "", next |-> p]
    ELSE IF is_start_tag(toks[p])
    THEN LET inner == parse_content(toks, p + 1)
         IN  IF \/ ~inner.ok
                \/ inner.next > Len(toks)
                \/ toks[inner.next] # end_tag_of(toks[p])
             THEN [ok |-> FALSE, children |-> <<>>, text |-> "", next |-> p]
             ELSE LET rest == parse_content(toks, inner.next + 1)
                  IN  [rest EXCEPT !.children =
                                       <<[tag      |-> start_tag_name(toks[p]),
                                          text     |-> inner.text,
                                          children |-> inner.children]>> \o @]
    ELSE LET rest == parse_content(toks, p + 1)
         IN  [rest EXCEPT !.text = toks[p] \o @]

\* XML(xml_bytes): the root element, or the parse error of a document that
\* is not one well-formed element.
XML(xml_bytes) ==
    LET r == parse_content(xml_bytes, 1)
    IN  IF r.ok /\ r.next = Len(xml_bytes) + 1 /\ Len(r.children) = 1 /\ r.text = ""
        THEN [raised |-> None, root |-> r.children[1]]
        ELSE [raised |-> "ParseError", root |-> [tag |-> None, text |-> "", children |-> <<>>]]

\* element.find(tag): does a direct child have the tag, and the first that has
Element_has(element, tag) ==
    \E j \in 1..Len(element.children) : element.children[j].tag = tag

Element_find(element, tag) ==
    element.children[CHOOSE j \in 1..Len(element.children) :
                         /\ element.children[j].tag = tag
                         /\ \A k \in 1..(j - 1) : element.children[k].tag # tag]

\* element.findtext(tag)
Element_findtext(element, tag) ==
    IF Element_has(element, tag) THEN Element_find(element, tag).text ELSE None

Digits == "0123456789"

is_digits(s) == \A j \in 1..Len(s) : IndexIn(SubSeq(s, j, j), Digits) > 0

RECURSIVE to_int(_)
to_int(s) ==
    IF s = "" THEN 0
    ELSE 10 * to_int(SubSeq(s, 1, Len(s) - 1))
         + IndexIn(SubSeq(s, Len(s), Len(s)), Digits) - 1

\* Does Time.fromISO8601TimeAndDate read the text: YYYY-MM-DDTHH:MM:SSZ
is_ISO8601(text) ==
    /\ text # None
    /\ Len(text) = 20
    /\ is_digits(SubSeq(text, 1, 4))
    /\ SubSeq(text, 5, 5) = "-"
    /\ is_digits(SubSeq(text, 6, 7))
    /\ SubSeq(text, 8, 8) = "-"
    /\ is_digits(SubSeq(text, 9, 10))
    /\ SubSeq(text, 11, 11) = "T"
    /\ is_digits(SubSeq(text, 12, 13))
    /\ SubSeq(text, 14, 14) = ":"
    /\ is_digits(SubSeq(text, 15, 16))
    /\ SubSeq(text, 17, 17) = ":"
    /\ is_digits(SubSeq(text, 18, 19))
    /\ SubSeq(text, 20, 20) = "Z"

\* Time.fromISO8601TimeAndDate(text), for a text it reads
fromISO8601TimeAndDate(text) ==
    [year   |-> to_int(SubSeq(text, 1, 4)),
     month  |-> to_int(SubSeq(text, 6, 7)),
     day    |-> to_int(SubSeq(text, 9, 10)),
     hour   |-> to_int(SubSeq(text, 12, 13)),
     minute |-> to_int(SubSeq(text, 15, 16)),
     second |-> to_int(SubSeq(text, 18, 19))]

\* Calling the generator function _parse_list_buckets runs none of its body:
\* it returns a generator that has not started.
parse_list_buckets(xml_bytes) ==
    [raised |-> None, value |-> [state |-> "created", pos |-> 1, error |-> None]]

\* A mutant re-iterable like a list: after its last entry it starts again.
parse_list_buckets_next_rewinding(xml_bytes, g) ==
    LET doc     == XML(xml_bytes)
        buckets == Element_find(doc.root, "Buckets")
        at      == IF g.state = "exhausted" THEN 1 ELSE g.pos
        bucket  == buckets.children[at]
        stamp   == Element_findtext(bucket, "CreationDate")
        stop(state, error) ==
            [kind |-> "stop", error |-> error, gen |-> [g EXCEPT !.state = state, !.error = error]]
    IN  IF g.state = "raised" THEN stop(g.state, None)
        ELSE IF doc.raised # None THEN stop("raised", doc.raised)
        ELSE IF ~Element_has(doc.root, "Buckets") THEN stop("raised", "TypeError")
        ELSE IF g.state = "exhausted" /\ Len(buckets.children) = 0 THEN stop("exhausted", None)
        ELSE IF at > Len(buckets.children) THEN stop("exhausted", None)
        ELSE IF ~is_ISO8601(stamp) THEN stop("raised", "ValueError")
        ELSE [kind  |-> "yield",
              value |-> [name    |-> Element_findtext(bucket, "Name"),
                         created |-> fromISO8601TimeAndDate(stamp)],
              gen   |-> [state |-> "suspended", pos |-> at + 1, error |-> None]]

\* next(generator) on the generator of _parse_list_buckets: the body runs to
\* its next yield, to an exception or to its end.  The document is parsed and
\* its Buckets element found when the body starts, that is at the first next.
parse_list_buckets_next(xml_bytes, g) ==
    LET doc     == XML(xml_bytes)
        buckets == Element_find(doc.root, "Buckets")
        bucket  == buckets.children[g.pos]
        stamp   == Element_findtext(bucket, "CreationDate")
        stop(state, error) ==
            [kind |-> "stop", error |-> error, gen |-> [g EXCEPT !.state = state, !.error = error]]
    IN  IF g.state \in {"raised", "exhausted"} THEN stop(g.state, None)
        ELSE IF doc.raised # None THEN stop("raised", doc.raised)
        ELSE IF ~Element_has(doc.root, "Buckets") THEN stop("raised", "TypeError")
        ELSE IF g.pos > Len(buckets.children) THEN stop("exhausted", None)
        ELSE IF ~is_ISO8601(stamp) THEN stop("raised", "ValueError")
        ELSE [kind  |-> "yield",
              value |-> [name    |-> Element_findtext(bucket, "Name"),
                         created |-> fromISO8601TimeAndDate(stamp)],
              gen   |-> [state |-> "suspended", pos |-> g.pos + 1, error |-> None]]

\* A Deferred firing with a result runs its callback on it: what the callback
\* returns is the Deferred's new result, what it raises its failure.
Deferred_callback(returned) ==
    IF returned.raised # None
    THEN [state |-> "failure", value |-> returned.raised]
    ELSE [state |-> "success", value |-> "generator"]

-----------------------------------------------------------------------------
(* The listing documents a service answers with.                           *)

two(n) == SubSeq(Digits, (n \div 10) + 1, (n \div 10) + 1)
          \o SubSeq(Digits, (n % 10) + 1, (n % 10) + 1)

\* A time written as the service writes it.
ISO8601(t) ==
    two(t.year \div 100) \o two(t.year % 100) \o "-" \o two(t.month) \o "-" \o two(t.day)
    \o "T" \o two(t.hour) \o ":" \o two(t.minute) \o ":" \o two(t.second) \o "Z"

ValidBuckets ==
    {[name    |-> "alpha",
      created |-> [year |-> 2023, month |-> 1, day |-> 15,
                   hour |-> 9, minute |-> 30, second |-> 5]],
     [name    |-> "beta",
      created |-> [year |-> 2019, month |-> 12, day |-> 31,
                   hour |-> 23, minute |-> 59, second |-> 59]]}

BucketEntry(b) == [name |-> b.name, date_text |-> ISO8601(b.created)]

\* The entries of a listing: the valid ones and one whose date is no date.
BucketEntries ==
    {BucketEntry(b) : b \in ValidBuckets} \cup {[name |-> "gamma", date_text |-> "yesterday"]}

SeqsUpTo(S, n) == UNION {[1..k -> S] : k \in 0..n}

RECURSIVE BucketTokens(_)
BucketTokens(es) ==
    IF es = <<>> THEN <<>>
    ELSE <<"<Bucket>", "<Name>", Head(es).name, "</Name>",
           "<CreationDate>", Head(es).date_text, "</CreationDate>", "</Bucket>">>
         \o BucketTokens(Tail(es))

OwnerTokens == <<"<Owner>", "<ID>", "owner-id", "</ID>", "</Owner>">>

ListAllMyBucketsResult(es) ==
    <<"<ListAllMyBucketsResult>">> \o OwnerTokens \o <<"<Buckets>">> \o BucketTokens(es)
    \o <<"</Buckets>", "</ListAllMyBucketsResult>">>

ListingBodies == {ListAllMyBucketsResult(es) : es \in SeqsUpTo(BucketEntries, MaxBuckets)}

\* Documents cut short, an empty one, and one whose tags do not match.
MalformedBodies ==
    {SubSeq(b, 1, Len(b) - 1) : b \in ListingBodies}
    \cup {<<>>, <<"<ListAllMyBucketsResult>", "<Buckets>", "</ListAllMyBucketsResult>">>}

\* A well-formed document without the Buckets element.
NoBucketsBody == <<"<ListAllMyBucketsResult>">> \o OwnerTokens \o <<"</ListAllMyBucketsResult>">>

-----------------------------------------------------------------------------
(* SpecList: one list_buckets call, the transport's answer, and a caller   *)
(* that iterates the Deferred's result, twice.                             *)

InitList ==
    /\ now = 0
    /\ QueriesIdle({1})
    /\ mappings = MetadataHeap(<<>>, <<>>)
    /\ \E creds \in CredsInputs, endpoint \in {None, "ep_shared"} :
           client = S3Client__init__(creds, endpoint, None)
    /\ call = NoCall
    /\ outcome = NoOutcome
    /\ ListIdle

\* list_buckets(): the query is constructed and submitted, and
\* _parse_list_buckets is added as the callback of the Deferred returned.
ListBuckets ==
    LET result == list_buckets_submit(client, endpoints, mappings, credentials,
                                      datetimeToString(now), OwnEndpoint(1))
    IN  /\ call.op = None
        /\ call' = [op |-> "list_buckets", args |-> NoArgs]
        /\ outcome' = result
        /\ endpoints' = IF result.constructed = 0 THEN endpoints
                        ELSE Query__init__heap(endpoints, OwnEndpoint(1), result.query.action,
                                               client.endpoint)
        /\ deferred' = IF result.raised # None THEN deferred
                       ELSE [state |-> "pending", value |-> None]
        /\ UNCHANGED <<now, credentials, mappings, ctor_args, queries, address, headers_out,
                       signed_text, canon_out, last_req, first_req>>
        /\ UNCHANGED <<client, response, gen, consumed, passes>>

\* The transport's Deferred fires with the response body: the callback runs.
TransportSucceeds ==
    \E body \in ListingBodies \cup MalformedBodies \cup {NoBucketsBody} :
        LET returned == parse_list_buckets(body)
        IN  /\ deferred.state = "pending"
            /\ response' = [status |-> "ok", body |-> body]
            /\ deferred' = Deferred_callback(returned)
            /\ gen' = IF returned.raised # None THEN gen ELSE returned.value
            /\ UNCHANGED <<query_vars, facade_vars, consumed, passes>>

\* The transport's Deferred fails: the callback is skipped.
TransportFails ==
    /\ deferred.state = "pending"
    /\ response' = [status |-> "error", body |-> <<>>]
    /\ deferred' = [state |-> "failure", value |-> "ConnectionError"]
    /\ UNCHANGED <<query_vars, facade_vars, gen, consumed, passes>>

\* The caller iterates the result: one next() of a for loop.  A loop ends
\* when next() raises; the caller loops over the result twice.
ConsumerNext ==
    LET r == parse_list_buckets_next(response.body, gen)
    IN  /\ deferred.state = "success"
        /\ passes < 2
        /\ gen' = r.gen
        /\ consumed' = IF r.kind = "yield" THEN Append(consumed, r.value) ELSE consumed
        /\ passes' = IF r.kind = "yield" THEN passes ELSE passes + 1
        /\ UNCHANGED <<query_vars, facade_vars, response, deferred>>

NextList ==
    \/ ListBuckets
    \/ TransportSucceeds
    \/ TransportFails
    \/ ConsumerNext

SpecList == InitList /\ [][NextList]_vars

\* C7: a response body that is not well-formed XML, or that lacks the
\* bucket collection, makes the Deferred returned by list_buckets end in
\* failure.
C7_MalformedListingFails ==
    (response.status = "ok" /\ response.body \in MalformedBodies \cup {NoBucketsBody})
        => deferred.state = "failure"

\* The records of a listing of valid buckets.
ExpectedRecords(bs) == [j \in 1..Len(bs) |-> [name |-> bs[j].name, created |-> bs[j].created]]

\* C8: for a successful response listing n buckets, iterating the result
\* gives n records in document order, each with the entry's Name text and
\* its CreationDate parsed as a timestamp; once a loop over the result has
\* ended, a second loop gives nothing.
C8_ListingRecords ==
    \A bs \in SeqsUpTo(ValidBuckets, MaxBuckets) :
        (/\ response.status = "ok"
         /\ response.body = ListAllMyBucketsResult([j \in 1..Len(bs) |-> BucketEntry(bs[j])]))
            => /\ deferred.state = "success"
               /\ gen.state # "raised"
               /\ Len(consumed) <= Len(bs)
               /\ consumed = SubSeq(ExpectedRecords(bs), 1, Len(consumed))
               /\ passes >= 1 => consumed = ExpectedRecords(bs)

C8_Witness ==
    /\ passes = 2
    /\ Len(consumed) = 2
    /\ consumed[1].name = "beta"
    /\ consumed[2].name = "alpha"
    /\ consumed[2].created.minute = 30
    /\ gen.state = "exhausted"

====
